---- MODULE Spec2Model ----
(***************************************************************************)
(* Model of DisorderFromAlphaFold.py: per-residue pLDDT scores of an       *)
(* AlphaFold model, optional sub-sequencing by residue number, detection   *)
(* of stretches of residues consecutively within a pLDDT threshold, and    *)
(* the disordered fraction built from the stretches that are long enough.  *)
(*                                                                         *)
(* Python values are kept as they are: indices and positions are 0-based   *)
(* numbers, arrays are TLA+ sequences read through At.  An optional        *)
(* argument is <<>> for None and <<v>> for the value v.                    *)
(***************************************************************************)
EXTENDS Integers, Sequences, FiniteSets

\* ---- bounds of the model ----
MaxLen == 4        \* residues in the AlphaFold model: 0..MaxLen
MaxScore == 1      \* pLDDT values and thresholds: 0..MaxScore
MaxBelow == 2      \* residue numbers tried: -MaxBelow..MaxLen+1

Scores == 0..MaxScore
ResNumbers == (0 - MaxBelow)..(MaxLen + 1)
LenThresholds == (0 - 1)..(MaxLen + 1)
ScoreArrays == UNION {[1..n -> Scores] : n \in 0..MaxLen}
OptRes == {<<>>} \cup {<<n>> : n \in ResNumbers}

VARIABLES
    residues,       \* pdb_model: the B-factor (pLDDT) of each residue, in order
    startRes,       \* optional argument startRes of the sub-sequence call
    endRes,         \* optional argument endRes of the sub-sequence call
    pLDDTs,         \* the score array under analysis
    pLDDTThreshold, \* threshold argument
    aboveThreshold, \* direction flag
    minLen,         \* numberConsectuivelyDisorderThreshold, <<>> when the fraction is not asked for
    pLDDTIndices,   \* selected indices (with the last one duplicated once past line 51)
    consecutivepLDDTIndices,
    consecutiveLens,
    i,              \* for-loop counter
    idx,            \* _idx
    length,         \* _length
    ret,            \* what getConsecutivepLDDTFromThreshold returned
    report,         \* what getDisorderedFractionFrompLDDTs returned
    err,            \* "" or the exception that ended the call
    pc

vars == <<residues, startRes, endRes, pLDDTs, pLDDTThreshold, aboveThreshold, minLen,
          pLDDTIndices, consecutivepLDDTIndices, consecutiveLens, i, idx, length,
          ret, report, err, pc>>

\* ---- Python / numpy helpers ----

\* a[k] for a 0-based position k inside the array
At(a, k) == a[k + 1]

\* Python's a[lo:hi]: a negative bound counts from the end, then both are clamped
SliceBound(n, b) ==
    IF b < 0 THEN (IF b + n < 0 THEN 0 ELSE b + n)
    ELSE (IF b > n THEN n ELSE b)

Slice(a, lo, hi) ==
    LET l == SliceBound(Len(a), lo)
        h == SliceBound(Len(a), hi)
    IN  IF l >= h THEN <<>> ELSE [k \in 1..(h - l) |-> a[l + k]]

RECURSIVE SumSeq(_)
SumSeq(s) == IF s = <<>> THEN 0 ELSE Head(s) + SumSeq(Tail(s))

\* ---- getpLDDTsFromAlphaFoldPDBModel (line 11) ----
getpLDDTsFromAlphaFoldPDBModel(model) == model

\* ---- getpLDDTsSubSequenceFromAlphaFoldPDBModel (lines 13-32) ----
\* Result: err is "" and val the returned array, or err names the assertion that failed.
getpLDDTsSubSequenceFromAlphaFoldPDBModel(model, s, e) ==
    IF e = <<>> /\ s = <<>>
    THEN [err |-> "", val |-> getpLDDTsFromAlphaFoldPDBModel(model)]
    ELSE IF ~(s # <<>> /\ e # <<>>)
    THEN [err |-> "AssertBothBounds", val |-> <<>>]
    ELSE IF ~(s[1] <= e[1])
    THEN [err |-> "AssertStartAfterEnd", val |-> <<>>]
    ELSE IF ~(e[1] - s[1] <= Len(model))
    THEN [err |-> "AssertSelectionLarger", val |-> <<>>]
    ELSE IF ~(e[1] <= Len(model))
    THEN [err |-> "AssertSelectionOutside", val |-> <<>>]
    ELSE [err |-> "", val |-> Slice(getpLDDTsFromAlphaFoldPDBModel(model), s[1] - 1, e[1])]

\* ---- getConsecutivepLDDTFromThreshold, the array expressions (lines 41-62) ----

\* Variant: strict comparisons, a score equal to the threshold is not selected
WithinThresholdStrict(score, threshold, above) ==
    IF above THEN score > threshold ELSE score < threshold

\* pLDDTs >= pLDDTThreshold or pLDDTs <= pLDDTThreshold, for one element
WithinThreshold(score, threshold, above) ==
    IF above THEN score >= threshold ELSE score <= threshold

\* np.argwhere(...)[:, 0]: the 0-based indices that pass, ascending
ArgWhere(scores, threshold, above) ==
    SelectSeq([k \in 1..Len(scores) |-> k - 1],
              LAMBDA j : WithinThreshold(At(scores, j), threshold, above))

\* Variant: the appended sentinel continues the last stretch instead of repeating its index
DuplicateLastPlusOne(ind) == Append(ind, ind[Len(ind)] + 1)

\* np.append(pLDDTIndices, pLDDTIndices[-1])
DuplicateLast(ind) == Append(ind, ind[Len(ind)])

\* Variant: a gap of one residue does not start a new stretch
IsNewStretchWide(diff) == diff > 2

\* Variant: every following index starts a stretch
IsNewStretchEvery(diff) == diff >= 1

\* pLDDTIndices[1:] - pLDDTIndices[:-1] > 1, for one adjacent difference
IsNewStretch(diff) == diff > 1

\* np.where(ext[1:] - ext[:-1] > 1)[0] + 1: positions in ext that follow a gap
StretchPositions(ext) ==
    SelectSeq([k \in 1..(Len(ext) - 1) |-> k],
              LAMBDA p : IsNewStretch(At(ext, p) - At(ext, p - 1)))

\* Variant: the leading zero is left out, so the first stretch is never measured
InsertZeroMissing(pos) == pos

\* np.insert(consecutivepLDDTIndices, 0, 0)
InsertZero(pos) == <<0>> \o pos

\* np.zeros(n).astype(np.int64)
Zeros(n) == [k \in 1..n |-> 0]

\* _length = 1, at the top of the for body
InitialLength == 1

\* ---- getDisorderedFractionFrompLDDTs (line 95) ----
\* Variant: a stretch exactly as long as the threshold is dropped
LongEnoughStrict(len, m) == len > m

\* Variant: the comparison is the wrong way round
LongEnoughFlipped(len, m) == len <= m

\* disorderedStretchesLengths >= numberConsectuivelyDisorderThreshold, for one length
LongEnough(len, m) == len >= m

LengthFilter(lens, m) == SelectSeq(lens, LAMBDA l : LongEnough(l, m))

\* ---- values before any call has returned ----
NoRet == [isNone |-> TRUE, indices |-> <<>>, lens |-> <<>>]
NoReport == [num |-> 0, den |-> 1, lensIsNone |-> TRUE, lens |-> <<>>]

Init ==
    /\ residues \in ScoreArrays
    /\ startRes = <<>>
    /\ endRes = <<>>
    /\ pLDDTs = <<>>
    /\ pLDDTThreshold = 0
    /\ aboveThreshold = FALSE
    /\ minLen = <<>>
    /\ pLDDTIndices = <<>>
    /\ consecutivepLDDTIndices = <<>>
    /\ consecutiveLens = <<>>
    /\ i = 0
    /\ idx = 0
    /\ length = 0
    /\ ret = NoRet
    /\ report = NoReport
    /\ err = ""
    /\ pc = "main"

\* ---- actions ----

\* getDisorderedFractionFromPDB line 115 / getpLDDTsSubSequenceFromAlphaFoldPDBModel
GetSubSequence ==
    /\ pc = "main"
    /\ \E s \in OptRes, e \in OptRes :
         LET r == getpLDDTsSubSequenceFromAlphaFoldPDBModel(residues, s, e) IN
         /\ startRes' = s
         /\ endRes' = e
         /\ err' = r.err
         /\ pLDDTs' = r.val
         /\ pc' = IF r.err = "" THEN "scores" ELSE "failed"
    /\ UNCHANGED <<residues, pLDDTThreshold, aboveThreshold, minLen, pLDDTIndices,
                   consecutivepLDDTIndices, consecutiveLens, i, idx, length, ret, report>>

\* The analysis functions receive pLDDTs alone: the frame of the sub-sequence call
\* (pdb_model, startRes, endRes) is released when one of them is entered.
Enter(threshold, above, m) ==
    /\ pc = "scores"
    /\ pLDDTThreshold' = threshold
    /\ aboveThreshold' = above
    /\ minLen' = m
    /\ residues' = <<>>
    /\ startRes' = <<>>
    /\ endRes' = <<>>
    /\ pc' = "select"
    /\ UNCHANGED <<pLDDTs, pLDDTIndices,
                   consecutivepLDDTIndices, consecutiveLens, i, idx, length, ret, report, err>>

\* getDisorderedFractionFrompLDDTs, line 90
CallDisorderedFraction == \E t \in Scores, m \in LenThresholds : Enter(t, FALSE, <<m>>)

\* getConsecutiveDisorderedFrompLDDTs called on its own, line 76
CallConsecutiveDisordered == \E t \in Scores : Enter(t, FALSE, <<>>)

\* getConsecutiveOrderedFrompLDDTs, line 82
CallConsecutiveOrdered == \E t \in Scores : Enter(t, TRUE, <<>>)

\* getConsecutivepLDDTFromThreshold lines 41-62
SelectStretches ==
    /\ pc = "select"
    /\ LET ind == ArgWhere(pLDDTs, pLDDTThreshold, aboveThreshold) IN
       IF Len(ind) = 0
       THEN /\ pLDDTIndices' = ind
            /\ ret' = [isNone |-> TRUE, indices |-> <<>>, lens |-> <<>>]
            /\ pc' = "returned"
            /\ UNCHANGED <<consecutivepLDDTIndices, consecutiveLens, i>>
       ELSE LET ext == DuplicateLast(ind)
                pos == InsertZero(StretchPositions(ext))
            IN  /\ pLDDTIndices' = ext
                /\ consecutivepLDDTIndices' = pos
                /\ consecutiveLens' = Zeros(Len(pos))
                /\ i' = 0
                /\ pc' = "for"
                /\ UNCHANGED ret
    /\ UNCHANGED <<residues, startRes, endRes, pLDDTs, pLDDTThreshold, aboveThreshold, minLen,
                   idx, length, report, err>>

\* line 63 with lines 64-65, or line 70 when the range is exhausted
ForStretch ==
    /\ pc = "for"
    /\ IF i < Len(consecutivepLDDTIndices)
       THEN /\ length' = InitialLength
            /\ idx' = At(consecutivepLDDTIndices, i)
            /\ pc' = "while"
            /\ UNCHANGED ret
       ELSE /\ ret' = [isNone |-> FALSE, indices |-> consecutivepLDDTIndices,
                       lens |-> consecutiveLens]
            /\ pc' = "returned"
            /\ UNCHANGED <<idx, length>>
    /\ UNCHANGED <<residues, startRes, endRes, pLDDTs, pLDDTThreshold, aboveThreshold, minLen,
                   pLDDTIndices, consecutivepLDDTIndices, consecutiveLens, i, report, err>>

\* lines 66-69: one evaluation of the while condition and what follows it.
\* Positions are never negative here, so a position past the end is an IndexError.
MeasureStretch ==
    /\ pc = "while"
    /\ IF idx + 1 >= Len(pLDDTIndices) \/ i >= Len(consecutiveLens)
       THEN /\ err' = "IndexError"
            /\ pc' = "failed"
            /\ UNCHANGED <<idx, length, consecutiveLens, i>>
       ELSE IF At(pLDDTIndices, idx + 1) = At(pLDDTIndices, idx) + 1
       THEN /\ length' = length + 1
            /\ idx' = idx + 1
            /\ UNCHANGED <<consecutiveLens, i, pc, err>>
       ELSE /\ consecutiveLens' = [consecutiveLens EXCEPT ![i + 1] = length]
            /\ i' = i + 1
            /\ pc' = "for"
            /\ UNCHANGED <<idx, length, err>>
    /\ UNCHANGED <<residues, startRes, endRes, pLDDTs, pLDDTThreshold, aboveThreshold, minLen,
                   pLDDTIndices, consecutivepLDDTIndices, ret, report>>

\* getDisorderedFractionFrompLDDTs lines 92-97
DisorderedFraction ==
    /\ pc = "returned"
    /\ minLen # <<>>
    /\ IF ret.isNone
       THEN /\ report' = [num |-> 0, den |-> 1, lensIsNone |-> TRUE, lens |-> <<>>]
            /\ pc' = "done"
            /\ UNCHANGED err
       ELSE LET filtered == LengthFilter(ret.lens, minLen[1]) IN
            IF Len(pLDDTs) = 0
            THEN /\ err' = "ZeroDivisionError"
                 /\ pc' = "failed"
                 /\ UNCHANGED report
            ELSE /\ report' = [num |-> SumSeq(filtered), den |-> Len(pLDDTs),
                               lensIsNone |-> FALSE, lens |-> filtered]
                 /\ pc' = "done"
                 /\ UNCHANGED err
    /\ UNCHANGED <<residues, startRes, endRes, pLDDTs, pLDDTThreshold, aboveThreshold, minLen,
                   pLDDTIndices, consecutivepLDDTIndices, consecutiveLens, i, idx, length, ret>>

Next ==
    \/ GetSubSequence
    \/ CallDisorderedFraction
    \/ CallConsecutiveDisordered
    \/ CallConsecutiveOrdered
    \/ SelectStretches
    \/ ForStretch
    \/ MeasureStretch
    \/ DisorderedFraction

Spec == Init /\ [][Next]_vars

\* The interpreter runs a started call to its end: no step waits on anything.
FairSpec == Spec /\ WF_vars(Next)

(***************************************************************************)
(* Reference notions the properties are stated with.  They are written     *)
(* from the score array alone, not from the arrays the code builds.        *)
(***************************************************************************)

\* the score at 0-based index j is selected by the threshold, equality included
Satisfies(j) ==
    IF aboveThreshold THEN pLDDTs[j + 1] >= pLDDTThreshold
    ELSE pLDDTs[j + 1] <= pLDDTThreshold

LastIndex == Len(pLDDTs) - 1

SatisfyingCount == Cardinality({j \in 0..LastIndex : Satisfies(j)})

\* One left-to-right scan: a satisfying index opens a run when it is the first one
\* or is not exactly one greater than the previous satisfying index.
RECURSIVE RefScan(_, _, _)
RefScan(j, prev, acc) ==
    IF j > LastIndex THEN acc
    ELSE IF ~Satisfies(j) THEN RefScan(j + 1, prev, acc)
    ELSE IF acc = <<>> \/ j # prev + 1 THEN RefScan(j + 1, j, Append(acc, 1))
    ELSE RefScan(j + 1, j, [acc EXCEPT ![Len(acc)] = @ + 1])

RefRunLengths == RefScan(0, 0 - 2, <<>>)

RefKeptLengths == SelectSeq(RefRunLengths, LAMBDA l : l >= minLen[1])

\* getConsecutivepLDDTFromThreshold has returned (None, None stands for no runs)
Returned == pc \in {"returned", "done"}

\* getDisorderedFractionFrompLDDTs has returned
Reported == pc = "done"

\* getpLDDTsSubSequenceFromAlphaFoldPDBModel has just returned or failed an assertion
SubSequenceEnded ==
    \/ pc = "scores"
    \/ pc = "failed" /\ err \notin {"IndexError", "ZeroDivisionError"}

\* C1: whenever getConsecutivepLDDTFromThreshold has returned, for either direction, the
\* lengths of the runs it returned (none when it returned None) add up to the number of
\* indices whose score satisfies the threshold predicate.
C1_LengthsSumToSatisfyingCount ==
    Returned => SumSeq(ret.lens) = SatisfyingCount

C1_Witness ==
    /\ Returned
    /\ aboveThreshold
    /\ Len(ret.lens) = 2
    /\ SatisfyingCount = 3
    /\ SatisfyingCount < Len(pLDDTs)

\* C2: the returned run lengths are, element for element, the lengths of the maximal
\* contiguous blocks of satisfying indices taken left to right; blocks separated by one
\* non-satisfying residue stay separate.
C2_LengthsAreMaximalBlocks ==
    Returned => ret.lens = RefRunLengths

C2_Witness ==
    /\ Returned
    /\ Len(pLDDTs) = 4
    /\ Satisfies(0) /\ Satisfies(1) /\ ~Satisfies(2) /\ Satisfies(3)
    /\ ret.lens = <<2, 1>>

\* C3: every returned run's start value s is the index into the score array of the run's
\* first residue: s..s+L-1 are valid indices that all satisfy the predicate, and s-1 and
\* s+L, where they exist, do not.
C3_StartIsScoreIndex ==
    (Returned /\ ~ret.isNone) =>
        \A r \in 1..Len(ret.indices) :
            LET s == ret.indices[r]
                L == ret.lens[r]
            IN  /\ s >= 0
                /\ s + L - 1 <= LastIndex
                /\ \A j \in s..(s + L - 1) : Satisfies(j)
                /\ (s - 1 >= 0 => ~Satisfies(s - 1))
                /\ (s + L <= LastIndex => ~Satisfies(s + L))

\* C4: no returned run has length 0, the start values strictly increase in the order
\* returned, and the intervals [start, start+length) of two runs do not overlap.
C4_RunsPositiveIncreasingDisjoint ==
    (Returned /\ ~ret.isNone) =>
        /\ Len(ret.indices) = Len(ret.lens)
        /\ \A r \in 1..Len(ret.lens) : ret.lens[r] >= 1
        /\ \A r, q \in 1..Len(ret.indices) :
               r < q => /\ ret.indices[r] < ret.indices[q]
                        /\ ret.indices[r] + ret.lens[r] <= ret.indices[q]

C4_Witness ==
    /\ Returned
    /\ Len(ret.indices) = 2
    /\ ret.lens[1] = 2

\* C5: when at least one index satisfies scores[i] <= T, the reported lengths are exactly
\* the run lengths that are >= minLength, in order, and the fraction is the sum of those
\* lengths over len(S).
C5_KeepsRunsAtLeastMinLength ==
    (Reported /\ SatisfyingCount >= 1) =>
        /\ ~report.lensIsNone
        /\ report.lens = RefKeptLengths
        /\ report.den > 0
        /\ report.num * Len(pLDDTs) = SumSeq(RefKeptLengths) * report.den

\* a run exactly minLength long is kept while a run one shorter is dropped
C5_Witness ==
    /\ Reported
    /\ minLen = <<2>>
    /\ RefRunLengths = <<2, 1>>
    /\ report.lens = <<2>>
    /\ report.num = 2 /\ report.den = 4

\* C6 as stated: whenever no run qualifies the result is fraction 0 with an empty list of
\* lengths, the same in all three cases (empty S, no satisfying index, all runs too short).
NoRunQualifies == \A r \in 1..Len(RefRunLengths) : RefRunLengths[r] < minLen[1]

C6_EmptyListInAllCases ==
    (Reported /\ NoRunQualifies) =>
        /\ report.num = 0
        /\ ~report.lensIsNone
        /\ report.lens = <<>>

\* C6 amended: whenever no run qualifies the call raises no error and the fraction is 0;
\* the lengths are None when no index satisfies the threshold (S empty or not) and an
\* empty list when runs exist but every one is shorter than minLength.
C6_ZeroWithNoneOrEmptyList ==
    /\ err \notin {"IndexError", "ZeroDivisionError"}
    /\ (Reported /\ NoRunQualifies) =>
          /\ report.num = 0
          /\ report.lens = <<>>
          /\ report.lensIsNone <=> (SatisfyingCount = 0)

C6_Witness ==
    /\ Reported
    /\ NoRunQualifies
    /\ Len(RefRunLengths) = 2
    /\ ~report.lensIsNone

\* C7: with minLength = 1 and a non-empty S the fraction is the number of indices with
\* scores[i] <= T over len(S).
C7_MinLengthOneCountsAll ==
    (Reported /\ Len(pLDDTs) > 0 /\ minLen = <<1>>) =>
        /\ report.den > 0
        /\ report.num * Len(pLDDTs) = SatisfyingCount * report.den

C7_Witness ==
    /\ Reported
    /\ minLen = <<1>>
    /\ RefRunLengths = <<1, 1>>
    /\ report.num = 2 /\ report.den = 3

\* C8: for every minLength, 0 and negative ones included, the fraction lies in [0,1]:
\* its numerator is >= 0 and at most len(S).
C8_FractionInUnitInterval ==
    Reported =>
        /\ report.den > 0
        /\ 0 <= report.num
        /\ report.num <= report.den
        /\ report.num <= Len(pLDDTs)

C8_Witness ==
    /\ Reported
    /\ minLen[1] < 0
    /\ Len(ret.lens) = 2
    /\ report.num = SatisfyingCount
    /\ report.num < report.den

\* C9: with both bounds given the call fails validation or returns exactly the scores of
\* residues startRes..endRes; with neither it returns all scores; with one it fails.
C9_SubSequenceIsClosedRange ==
    SubSequenceEnded =>
        IF startRes = <<>> /\ endRes = <<>>
        THEN err = "" /\ pLDDTs = residues
        ELSE IF startRes = <<>> \/ endRes = <<>>
        THEN err # ""
        ELSE \/ err # ""
             \/ /\ 1 <= startRes[1]
                /\ endRes[1] <= Len(residues)
                /\ pLDDTs = SubSeq(residues, startRes[1], endRes[1])

\* C10: every read pLDDTIndices[_idx+1] of the length-measuring loop is inside the index
\* array extended by the duplicated last element, the loop ends for every run start, and
\* the whole scan returns.
ScanInside ==
    /\ err # "IndexError"
    /\ pc = "while" => idx + 1 <= Len(pLDDTIndices) - 1

C10_ScanStaysInsideAndEnds ==
    /\ []ScanInside
    /\ (pc = "while") ~> (pc = "for")
    /\ (pc = "select") ~> (pc = "returned")

\* the duplicated last element is read while the final run, not the first, is measured
C10_Witness ==
    /\ pc = "while"
    /\ i >= 1
    /\ length >= 2
    /\ idx + 1 = Len(pLDDTIndices) - 1
====
